---- MODULE Spec2Model ----
(***************************************************************************)
(* Model of the MyEzz user-app data-access modules:                        *)
(*   src/src/api/unifiedOrderService.js  (real-time channel, placeOrder,   *)
(*                                        unified order requests)          *)
(*   src/src/api/riderService.js         (rider requests, getOrderStatus)  *)
(*                                                                         *)
(* Spec      : the real-time channel (module-level `socket` handle, the    *)
(*             sockets io() created, transport events, event handlers).    *)
(* SpecHttp  : one invocation at a time of a request operation, its HTTP   *)
(*             requests in flight and the backend's answers.               *)
(***************************************************************************)
EXTENDS Integers, Sequences, FiniteSets, TLC

VARIABLES
    socket,     \* unifiedOrderService.js:24  the module-level handle (NULL or a socket id)
    nsock,      \* number of sockets io() has created so far
    st,         \* per socket: "none" | "connecting" | "connected" | "down" | "closed"
    cust,       \* per socket: the customerId its handlers closed over
    cbs,        \* per socket: the names of the callbacks its handlers closed over
    op,         \* the last operation / transport event: what ran, and the handle it saw
    out,        \* what the last operation did, in order: socket.emit calls and callback calls
    ret,        \* what the last exported call returned (a handle) or NULL
    threw,      \* TRUE when the last handler ended in an uncaught TypeError
    hpc,        \* position of the request operation in progress
    hop,        \* the request operation in progress and its arguments
    groups,     \* placeOrder: Object.entries(ordersByRestaurant) not yet posted
    orders,     \* placeOrder: the `orders` array
    inflight,   \* HTTP requests issued and not yet answered
    reqlog,     \* every HTTP request issued by the invocation, in issue order
    answers,    \* the backend's answer to each answered request, in order
    result      \* how the invocation settled: none / value / error

rtvars   == <<socket, nsock, st, cust, cbs, op, out, ret, threw>>
httpvars == <<hpc, hop, groups, orders, inflight, reqlog, answers, result>>
vars     == <<socket, nsock, st, cust, cbs, op, out, ret, threw,
              hpc, hop, groups, orders, inflight, reqlog, answers, result>>

(***************************************************************************)
(* Bounds                                                                  *)
(***************************************************************************)
MaxSockets == 2
MaxCart == 3

NULL == 0
SocketIds == 1..MaxSockets

Customers == {"custA", "custB"}
OrderIds  == {"o1", "o2"}
Payloads  == {"d1", "d2"}

\* the callback names initializeRealtimeConnection reads from `callbacks`
AllCallbacks ==
    {"onConnect", "onDisconnect", "onOrderAccepted", "onOrderRejected",
     "onStatusUpdate", "onOrderUpdate", "onRiderLocation"}

\* the `callbacks` objects callers pass: none (the default {}), all, and a partial one
CallbackSets ==
    { {}, AllCallbacks, {"onConnect", "onStatusUpdate", "onRiderLocation"} }

\* events the server sends on a connected socket and the module listens to
ServerEvents ==
    {"authenticated", "order_accepted", "order_rejected",
     "order_status_updated", "order_updated", "rider_location"}

\* reasons socket.io gives with 'disconnect' when the client did not ask for it
DropReasons == {"transport close", "io server disconnect"}
ClientDisconnect == "io client disconnect"

(***************************************************************************)
(* The real-time channel                                                   *)
(***************************************************************************)
Emit(s, name, args) == [k |-> "emit", on |-> s, name |-> name, args |-> args]
Call(s, name, args) == [k |-> "call", on |-> s, name |-> name, args |-> args]

\* `if (callbacks.X) { callbacks.X(...) }` in the handlers socket s registered
CallIfSupplied(s, name, args) ==
    IF name \in cbs[s] THEN << Call(s, name, args) >> ELSE << >>

\* socket?.connected
HandleConnected == socket # NULL /\ st[socket] = "connected"

\* variant: the early return is never taken
AlreadyConnectedNever == FALSE

\* initializeRealtimeConnection: the early return `if (socket?.connected) return socket`
AlreadyConnected == HandleConnected

\* variant: the guard tests only that the handle is non-null
MayEmitNonNull == socket # NULL

\* the guard of subscribeToOrder / unsubscribeFromOrder
MayEmit == HandleConnected

NoOp == [name |-> "none", s |-> NULL, ev |-> "", data |-> "", h |-> NULL, hc |-> FALSE]
OpRec(name, s, ev, data) ==
    [name |-> name, s |-> s, ev |-> ev, data |-> data, h |-> socket, hc |-> HandleConnected]

\* socket.on('connect', ...): emits through the module-level `socket`, not
\* through the socket that connected; a null handle makes socket.emit throw.
ConnectHandlerThrows(s) == socket = NULL
ConnectHandler(s) ==
    IF ConnectHandlerThrows(s) THEN << >>
    ELSE << Emit(socket, "authenticate", <<"customer", cust[s]>>),
            Emit(socket, "customer:join", <<cust[s]>>) >>
         \o CallIfSupplied(s, "onConnect", << >>)

\* socket.on('disconnect', () => ...): the reason socket.io passes is not forwarded
DisconnectHandler(s, reason) == CallIfSupplied(s, "onDisconnect", << >>)

\* variant: the 'order_updated' handler forwards to onStatusUpdate
CallbackOfSwapped(ev) ==
    CASE ev = "order_accepted"       -> "onOrderAccepted"
      [] ev = "order_rejected"       -> "onOrderRejected"
      [] ev = "order_status_updated" -> "onStatusUpdate"
      [] ev = "order_updated"        -> "onStatusUpdate"
      [] ev = "rider_location"       -> "onRiderLocation"
      [] OTHER                       -> ""

\* the callback each server-event handler forwards to ("" for 'authenticated', which only logs)
CallbackOf(ev) ==
    CASE ev = "order_accepted"       -> "onOrderAccepted"
      [] ev = "order_rejected"       -> "onOrderRejected"
      [] ev = "order_status_updated" -> "onStatusUpdate"
      [] ev = "order_updated"        -> "onOrderUpdate"
      [] ev = "rider_location"       -> "onRiderLocation"
      [] OTHER                       -> ""

ServerEventHandler(s, ev, data) ==
    IF CallbackOf(ev) = "" THEN << >> ELSE CallIfSupplied(s, CallbackOf(ev), <<data>>)

\* variant: the handle is not cleared
HandleKept == socket

\* disconnectRealtime: `socket = null` after socket.disconnect()
HandleAfterDisconnect == NULL

InitializeRealtimeConnection(c, cb) ==
    /\ IF AlreadyConnected
         THEN /\ ret' = socket
              /\ UNCHANGED <<socket, nsock, st, cust, cbs>>
         ELSE /\ nsock < MaxSockets
              /\ nsock' = nsock + 1
              /\ socket' = nsock + 1
              /\ st' = [st EXCEPT ![nsock + 1] = "connecting"]
              /\ cust' = [cust EXCEPT ![nsock + 1] = c]
              /\ cbs' = [cbs EXCEPT ![nsock + 1] = cb]
              /\ ret' = nsock + 1
    /\ op' = OpRec("init", NULL, "", c)
    /\ out' = << >>
    /\ threw' = FALSE
    /\ UNCHANGED httpvars

\* socket.disconnect() of socket.io: a connected socket fires 'disconnect'
\* ("io client disconnect") synchronously; the socket never reconnects.
DisconnectRealtime ==
    /\ IF socket # NULL
         THEN /\ out' = IF st[socket] = "connected"
                          THEN DisconnectHandler(socket, ClientDisconnect) ELSE << >>
              /\ st' = [st EXCEPT ![socket] = "closed"]
              /\ cust' = [cust EXCEPT ![socket] = ""]
              /\ cbs' = [cbs EXCEPT ![socket] = {}]
              /\ socket' = HandleAfterDisconnect
         ELSE /\ out' = << >>
              /\ UNCHANGED <<socket, st, cust, cbs>>
    /\ op' = OpRec("disconnectRealtime", socket, "", "")
    /\ ret' = NULL
    /\ threw' = FALSE
    /\ UNCHANGED <<nsock>>
    /\ UNCHANGED httpvars

SubscribeToOrder(id) ==
    /\ out' = IF MayEmit
                THEN << Emit(socket, "order:subscribe", <<id>>),
                        Emit(socket, "customer:track_order", <<id>>) >>
                ELSE << >>
    /\ op' = OpRec("subscribe", NULL, "", id)
    /\ ret' = NULL
    /\ threw' = FALSE
    /\ UNCHANGED <<socket, nsock, st, cust, cbs>>
    /\ UNCHANGED httpvars

UnsubscribeFromOrder(id) ==
    /\ out' = IF MayEmit THEN << Emit(socket, "order:unsubscribe", <<id>>) >> ELSE << >>
    /\ op' = OpRec("unsubscribe", NULL, "", id)
    /\ ret' = NULL
    /\ threw' = FALSE
    /\ UNCHANGED <<socket, nsock, st, cust, cbs>>
    /\ UNCHANGED httpvars

\* the transport of socket s connects (first connection or a reconnection)
TransportConnect(s) ==
    /\ st[s] = "connecting"
    /\ st' = [st EXCEPT ![s] = "connected"]
    /\ out' = ConnectHandler(s)
    /\ threw' = ConnectHandlerThrows(s)
    /\ op' = OpRec("connect", s, "connect", "")
    /\ ret' = NULL
    /\ UNCHANGED <<socket, nsock, cust, cbs>>
    /\ UNCHANGED httpvars

\* the connection of socket s drops; socket.io reconnects by itself unless the
\* server closed the socket ("io server disconnect")
TransportDisconnect(s, reason) ==
    /\ st[s] = "connected"
    /\ st' = [st EXCEPT ![s] = IF reason = "io server disconnect" THEN "down" ELSE "connecting"]
    /\ out' = DisconnectHandler(s, reason)
    /\ threw' = FALSE
    /\ op' = OpRec("drop", s, "disconnect", reason)
    /\ ret' = NULL
    /\ UNCHANGED <<socket, nsock, cust, cbs>>
    /\ UNCHANGED httpvars

\* reconnectionAttempts are used up: socket.io stops trying; the module has no
\* listener for it
ReconnectFailed(s) ==
    /\ st[s] = "connecting"
    /\ st' = [st EXCEPT ![s] = "down"]
    /\ out' = << >>
    /\ threw' = FALSE
    /\ op' = OpRec("reconnect_failed", s, "reconnect_failed", "")
    /\ ret' = NULL
    /\ UNCHANGED <<socket, nsock, cust, cbs>>
    /\ UNCHANGED httpvars

\* the server sends event ev with payload data on the connected socket s
ServerEvent(s, ev, data) ==
    /\ st[s] = "connected"
    /\ out' = ServerEventHandler(s, ev, data)
    /\ threw' = FALSE
    /\ op' = OpRec("event", s, ev, data)
    /\ ret' = NULL
    /\ UNCHANGED <<socket, nsock, st, cust, cbs>>
    /\ UNCHANGED httpvars

InitRealtime ==
    /\ socket = NULL
    /\ nsock = 0
    /\ st = [s \in SocketIds |-> "none"]
    /\ cust = [s \in SocketIds |-> ""]
    /\ cbs = [s \in SocketIds |-> {}]
    /\ op = NoOp
    /\ out = << >>
    /\ ret = NULL
    /\ threw = FALSE

(***************************************************************************)
(* Request operations                                                      *)
(***************************************************************************)
NoResult == [kind |-> "none"]
Value(v) == [kind |-> "value", val |-> v]
Rejected(e) == [kind |-> "error", val |-> e]

\* error objects axios rejects with
Errors == {"timeout", "http500"}

\* order ids as character strings, so that startsWith is computed
IdUnified   == <<"M", "Y", "E", "-", "1">>
IdNoDash    == <<"M", "Y", "E", "1">>
IdLowerCase == <<"m", "y", "e", "-", "1">>
IdInside    == <<"R", "M", "Y", "E", "-">>
IdRider     == <<"R", "7">>
IdPrefix    == <<"M", "Y", "E", "-">>
StatusIds   == {IdUnified, IdNoDash, IdLowerCase, IdInside, IdRider, IdPrefix}
NoId        == << >>

\* String.prototype.startsWith
StartsWith(str, prefix) ==
    /\ Len(str) >= Len(prefix)
    /\ SubSeq(str, 1, Len(prefix)) = prefix

UnifiedPrefix == <<"M", "Y", "E", "-">>

\* variant: the prefix test leaves out the dash
IsUnifiedIdLoose(id) == StartsWith(id, <<"M", "Y", "E">>)

\* getOrderStatus: `orderId.startsWith('MYE-')`
IsUnifiedId(id) == StartsWith(id, UnifiedPrefix)

NoBody == [kind |-> "none"]
Request(client, method, path, id, body) ==
    [client |-> client, method |-> method, path |-> path, id |-> id, body |-> body]

\* cart items: restaurantId / vendorId are property keys already ("" stands
\* for a missing or falsy id)
ItemA == [name |-> "a", restaurantId |-> "1",  vendorId |-> "",   price |-> 10, quantity |-> 1]
ItemB == [name |-> "b", restaurantId |-> "2",  vendorId |-> "1",  price |-> 20, quantity |-> 2]
ItemC == [name |-> "c", restaurantId |-> "",   vendorId |-> "2",  price |-> 5,  quantity |-> 3]
ItemD == [name |-> "d", restaurantId |-> "",   vendorId |-> "",   price |-> 7,  quantity |-> 1]
ItemE == [name |-> "e", restaurantId |-> "rA", vendorId |-> "",   price |-> 10, quantity |-> 2]
Items == {ItemA, ItemB, ItemC, ItemD, ItemE}

RECURSIVE SeqsUpTo(_, _)
SeqsUpTo(S, n) ==
    IF n = 0 THEN { << >> }
    ELSE LET shorter == SeqsUpTo(S, n - 1)
         IN  shorter \cup { Append(q, x) : q \in { r \in shorter : Len(r) = n - 1 }, x \in S }

Carts == SeqsUpTo(Items, MaxCart)

\* the caller-supplied subtotal, deliveryFee, platformFee, total
FeeSets ==
    { [subtotal |-> 100, deliveryFee |-> 40, platformFee |-> 5, total |-> 145],
      [subtotal |-> 45,  deliveryFee |-> 30, platformFee |-> 0, total |-> 75] }

\* variant: vendorId takes precedence over restaurantId
RestaurantKeyVendorFirst(item) ==
    IF item.vendorId # "" THEN item.vendorId
    ELSE IF item.restaurantId # "" THEN item.restaurantId
    ELSE "1"

\* groupItemsByRestaurant: `item.restaurantId || item.vendorId || '1'`
RestaurantKey(item) ==
    IF item.restaurantId # "" THEN item.restaurantId
    ELSE IF item.vendorId # "" THEN item.vendorId
    ELSE "1"

\* one step of the reduce: acc is the object as its keys in insertion order
GroupStep(acc, item) ==
    LET key == RestaurantKey(item)
        at  == { i \in 1..Len(acc) : acc[i].key = key }
    IN  IF at = {}
          THEN Append(acc, [key |-> key, items |-> <<item>>])
          ELSE [i \in 1..Len(acc) |->
                  IF i \in at THEN [acc[i] EXCEPT !.items = Append(@, item)] ELSE acc[i]]

RECURSIVE Reduce(_, _)
Reduce(cart, acc) ==
    IF cart = << >> THEN acc ELSE Reduce(Tail(cart), GroupStep(acc, Head(cart)))

groupItemsByRestaurant(cart) == Reduce(cart, << >>)

\* the value of a property key that is an array index, -1 for any other key
IndexOfKey(key) ==
    CASE key = "1" -> 1
      [] key = "2" -> 2
      [] OTHER     -> -1

\* parseInt(restaurantId) || 1
ParsedRestaurantId(key) == IF IndexOfKey(key) > 0 THEN IndexOfKey(key) ELSE 1

\* Object.entries / Object.keys: integer-like keys ascending, then the other
\* keys in insertion order
RECURSIVE SortByIndex(_)
SortByIndex(es) ==
    IF es = << >> THEN << >>
    ELSE LET m == CHOOSE i \in 1..Len(es) :
                    \A j \in 1..Len(es) : IndexOfKey(es[i].key) <= IndexOfKey(es[j].key)
         IN  <<es[m]>> \o SortByIndex(SubSeq(es, 1, m - 1) \o SubSeq(es, m + 1, Len(es)))

IsIndexEntry(e) == IndexOfKey(e.key) >= 0
IsNamedEntry(e) == IndexOfKey(e.key) < 0
ObjectEntries(obj) ==
    SortByIndex(SelectSeq(obj, IsIndexEntry)) \o SelectSeq(obj, IsNamedEntry)

\* items.map(item => ({name, quantity, price, ...}))
PayloadItem(item) == [name |-> item.name, quantity |-> item.quantity, price |-> item.price]
PayloadItems(items) == [i \in 1..Len(items) |-> PayloadItem(items[i])]

\* items.reduce((sum, item) => sum + (item.price * item.quantity), 0)
RECURSIVE restaurantSubtotal(_)
restaurantSubtotal(items) ==
    IF items = << >> THEN 0
    ELSE Head(items).price * Head(items).quantity + restaurantSubtotal(Tail(items))

restaurantDeliveryFee == 30

restaurantTotal(items, platformFee) ==
    restaurantSubtotal(items) + restaurantDeliveryFee + platformFee

\* the payload of the single-restaurant branch
SinglePayload(entry, fees) ==
    [kind |-> "order",
     restaurantId |-> ParsedRestaurantId(entry.key),
     items |-> PayloadItems(entry.items),
     subtotal |-> fees.subtotal,
     deliveryFee |-> fees.deliveryFee,
     platformFee |-> fees.platformFee,
     total |-> fees.total]

\* the payload of one turn of the multi-restaurant loop
MultiPayload(entry, fees) ==
    [kind |-> "order",
     restaurantId |-> ParsedRestaurantId(entry.key),
     items |-> PayloadItems(entry.items),
     subtotal |-> restaurantSubtotal(entry.items),
     deliveryFee |-> restaurantDeliveryFee,
     platformFee |-> fees.platformFee,
     total |-> restaurantTotal(entry.items, fees.platformFee)]

PostOrder(payload) == Request("unified", "POST", "/orders", NoId, payload)

\* variant: the POSTs of all groups are issued together
IssuedAllAtOnce(gs) == gs

\* the loop body runs up to its `await`: one POST is issued, for the next group
IssuedBeforeAwait(gs) == << gs[1] >>

\* orders.push(response.data)
PushOrder(os, data) == Append(os, data)

\* the object the multi-restaurant branch returns
MultiResult(os) == [success |-> TRUE, data |-> os, message |-> Len(os)]

\* variant: the catch throws a new error in place of the one it caught
RethrownWrapped(e) == "wrapped"

\* a rejected request: no catch (or the catch of getOrderStatus, which logs
\* and rethrows), the operation rejects with the same error
Rethrown(e) == e

\* what the unified track endpoint answers (response.data)
Tracking(n) ==
    [order |-> [id |-> n, status |-> "stored", total |-> 75],
     currentStatus |-> "preparing",
     timeline |-> <<"placed", "preparing">>]
TrackAnswers ==
    { [success |-> TRUE, data |-> Tracking(1)],
      [success |-> TRUE, data |-> Tracking(2)],
      [success |-> FALSE, message |-> "not found"],
      [message |-> "no flag"] }

\* truthiness of response.data.success
SuccessFlag(data) == "success" \in DOMAIN data /\ data.success = TRUE

\* { ...tracking.order, status: tracking.currentStatus, timeline: tracking.timeline }
TrackedOrder(tracking) ==
    [f \in DOMAIN tracking.order \cup {"status", "timeline"} |->
        IF f = "status" THEN tracking.currentStatus
        ELSE IF f = "timeline" THEN tracking.timeline
        ELSE tracking.order[f]]

\* what any other endpoint answers (response.data)
PlainAnswers == { [tag |-> "x"], [tag |-> "y"] }

IsTrackRequest(r) == r.path = "/orders/:id/track"
AnswersTo(r) == IF IsTrackRequest(r) THEN TrackAnswers ELSE PlainAnswers

\* axios call: the request is issued and the operation awaits its answer
Issue(reqs) ==
    /\ inflight' = inflight \o reqs
    /\ reqlog' = reqlog \o reqs

RiderStatusRequest(id) == Request("rider", "GET", "/api/orders/:id", id, NoBody)
TrackRequest(id) == Request("unified", "GET", "/orders/:id/track", id, NoBody)

\* the one request each pass-through operation issues
SimpleOps ==
    {"submitOrderToRider", "getAvailableOrders", "getOrder", "trackOrder",
     "getCustomerOrders", "cancelOrder"}
SimpleRequest(name, id) ==
    CASE name = "submitOrderToRider" -> Request("rider", "POST", "/api/orders", NoId, [kind |-> "orderData"])
      [] name = "getAvailableOrders" -> Request("rider", "GET", "/api/orders/available", NoId, NoBody)
      [] name = "getOrder"           -> Request("unified", "GET", "/orders/:id", id, NoBody)
      [] name = "trackOrder"         -> TrackRequest(id)
      [] name = "getCustomerOrders"  -> Request("unified", "GET", "/customer/:id/orders", id, [kind |-> "params", limit |-> 20])
      [] name = "cancelOrder"        -> Request("unified", "POST", "/orders/:id/status", id, [kind |-> "cancel", status |-> "cancelled"])

Begin(name, id, cart, fees) ==
    /\ hpc = "idle"
    /\ hop' = [name |-> name, id |-> id, cart |-> cart, fees |-> fees]
    /\ answers' = << >>
    /\ UNCHANGED rtvars

NoFees == [subtotal |-> 0, deliveryFee |-> 0, platformFee |-> 0, total |-> 0]

\* placeOrder up to its first await
PlaceOrder(cart, fees) ==
    /\ Begin("placeOrder", NoId, cart, fees)
    /\ LET entries == ObjectEntries(groupItemsByRestaurant(cart))
       IN  IF Len(entries) = 1
             THEN /\ Issue(<< PostOrder(SinglePayload(entries[1], fees)) >>)
                  /\ hpc' = "place_single"
                  /\ UNCHANGED <<groups, orders, result>>
             ELSE IF entries = << >>
             THEN /\ result' = Value(MultiResult(<< >>))
                  /\ hpc' = "done"
                  /\ UNCHANGED <<groups, orders, inflight, reqlog>>
             ELSE LET now == IssuedBeforeAwait(entries)
                  IN  /\ Issue([i \in 1..Len(now) |-> PostOrder(MultiPayload(now[i], fees))])
                      /\ groups' = SubSeq(entries, Len(now) + 1, Len(entries))
                      /\ orders' = << >>
                      /\ hpc' = "place_multi"
                      /\ UNCHANGED result

\* getOrderStatus up to its first await
GetOrderStatus(id) ==
    /\ Begin("getOrderStatus", id, << >>, NoFees)
    /\ IF IsUnifiedId(id)
         THEN /\ Issue(<< TrackRequest(id) >>)
              /\ hpc' = "status_track"
         ELSE /\ Issue(<< RiderStatusRequest(id) >>)
              /\ hpc' = "status_rider"
    /\ UNCHANGED <<groups, orders, result>>

\* the six pass-through operations up to their await
SimpleCall(name, id) ==
    /\ Begin(name, id, << >>, NoFees)
    /\ Issue(<< SimpleRequest(name, id) >>)
    /\ hpc' = "simple"
    /\ UNCHANGED <<groups, orders, result>>

Settle(r) ==
    /\ result' = r
    /\ hpc' = "done"

\* the oldest request in flight is answered with response.data = data and the
\* operation resumes after its await
RespondOk(data) ==
    /\ inflight # << >>
    /\ data \in AnswersTo(Head(inflight))
    /\ answers' = Append(answers, [ok |-> TRUE, data |-> data])
    /\ CASE hpc \in {"place_single", "simple", "status_rider"} ->
              /\ Settle(Value(data))
              /\ inflight' = Tail(inflight)
              /\ UNCHANGED <<groups, orders, reqlog>>
         [] hpc = "place_multi" ->
              /\ orders' = PushOrder(orders, data)
              /\ IF groups = << >>
                   THEN /\ IF Len(inflight) = 1
                             THEN Settle(Value(MultiResult(orders')))
                             ELSE UNCHANGED <<hpc, result>>
                        /\ inflight' = Tail(inflight)
                        /\ UNCHANGED <<groups, reqlog>>
                   ELSE LET now == IssuedBeforeAwait(groups)
                            reqs == [i \in 1..Len(now) |-> PostOrder(MultiPayload(now[i], hop.fees))]
                        IN  /\ inflight' = Tail(inflight) \o reqs
                            /\ reqlog' = reqlog \o reqs
                            /\ groups' = SubSeq(groups, Len(now) + 1, Len(groups))
                            /\ UNCHANGED <<hpc, result>>
         [] hpc = "status_track" ->
              /\ IF SuccessFlag(data)
                   THEN /\ Settle(Value(TrackedOrder(data.data)))
                        /\ inflight' = Tail(inflight)
                        /\ UNCHANGED reqlog
                   ELSE /\ inflight' = Tail(inflight) \o << RiderStatusRequest(hop.id) >>
                        /\ reqlog' = Append(reqlog, RiderStatusRequest(hop.id))
                        /\ hpc' = "status_rider"
                        /\ UNCHANGED result
              /\ UNCHANGED <<groups, orders>>
    /\ UNCHANGED <<hop>>
    /\ UNCHANGED rtvars

\* the oldest request in flight fails with error e and the awaiting operation
\* rejects
RespondFail(e) ==
    /\ inflight # << >>
    /\ hpc \in {"place_single", "place_multi", "simple", "status_track", "status_rider"}
    /\ answers' = Append(answers, [ok |-> FALSE, data |-> e])
    /\ inflight' = Tail(inflight)
    /\ Settle(Rejected(Rethrown(e)))
    /\ UNCHANGED <<hop, groups, orders, reqlog>>
    /\ UNCHANGED rtvars

\* the caller has its settled promise; the next invocation starts afresh
Return ==
    /\ hpc = "done"
    /\ hpc' = "idle"
    /\ hop' = [name |-> "none"]
    /\ groups' = << >>
    /\ orders' = << >>
    /\ inflight' = << >>
    /\ reqlog' = << >>
    /\ answers' = << >>
    /\ result' = NoResult
    /\ UNCHANGED rtvars

InitRequests ==
    /\ hpc = "idle"
    /\ hop = [name |-> "none"]
    /\ groups = << >>
    /\ orders = << >>
    /\ inflight = << >>
    /\ reqlog = << >>
    /\ answers = << >>
    /\ result = NoResult

Init == InitRealtime /\ InitRequests

Next ==
    \/ \E c \in Customers, cb \in CallbackSets : InitializeRealtimeConnection(c, cb)
    \/ DisconnectRealtime
    \/ \E id \in OrderIds : SubscribeToOrder(id)
    \/ \E id \in OrderIds : UnsubscribeFromOrder(id)
    \/ \E s \in SocketIds : TransportConnect(s)
    \/ \E s \in SocketIds, r \in DropReasons : TransportDisconnect(s, r)
    \/ \E s \in SocketIds : ReconnectFailed(s)
    \/ \E s \in SocketIds, ev \in ServerEvents, d \in Payloads : ServerEvent(s, ev, d)

Spec == Init /\ [][Next]_vars

NextHttp ==
    \/ \E cart \in Carts, fees \in FeeSets : PlaceOrder(cart, fees)
    \/ \E id \in StatusIds : GetOrderStatus(id)
    \/ \E name \in SimpleOps, id \in {IdUnified, IdRider} : SimpleCall(name, id)
    \/ \E data \in TrackAnswers \cup PlainAnswers : RespondOk(data)
    \/ \E e \in Errors : RespondFail(e)
    \/ Return

SpecHttp == Init /\ [][NextHttp]_vars

(***************************************************************************)
(* Properties                                                              *)
(***************************************************************************)
LiveSockets == { s \in SocketIds : st[s] \notin {"none", "closed"} }

\* C1: at most one socket created by the module has not been explicitly
\* disconnected, in every reachable state.
C1_AtMostOneConnection == Cardinality(LiveSockets) <= 1

C2_Step ==
    (op'.name = "init" /\ HandleConnected) =>
        /\ ret' = socket
        /\ out' = << >>
        /\ threw' = FALSE
        /\ UNCHANGED <<socket, nsock, st, cust, cbs>>

\* C2: initializeRealtimeConnection called while the handle is connected
\* returns that handle, creates no socket, registers no handler, emits nothing
\* and leaves the bound customerId and callbacks as they were.
C2_ReinitIsNoop == [][C2_Step]_vars

\* a second call, with another customerId, answered with the connected handle
C2_Witness ==
    /\ op.name = "init" /\ op.hc
    /\ ret = socket /\ ret # NULL
    /\ st[socket] = "connected"
    /\ cust[socket] # op.data

TransportOps == {"connect", "drop", "reconnect_failed", "event"}

C3_Step ==
    /\ op'.name = "init" => (socket' # NULL /\ ret' = socket')
    /\ (op'.name = "init" /\ ~HandleConnected) => (socket' \notin 1..nsock /\ st'[socket'] = "connecting")
    /\ op'.name = "disconnectRealtime" => socket' = NULL
    /\ (op'.name = "disconnectRealtime" /\ socket # NULL) => st'[socket] = "closed"
    /\ (op'.name = "disconnectRealtime" /\ socket = NULL) =>
            (UNCHANGED <<socket, nsock, st, cust, cbs>> /\ out' = << >> /\ threw' = FALSE)
    /\ op'.name \in TransportOps \cup {"subscribe", "unsubscribe"} => socket' = socket

\* C3: the handle is null initially, non-null after initializeRealtimeConnection,
\* null after disconnectRealtime with the socket it held disconnected whatever
\* its state was; disconnectRealtime on a null handle changes nothing; no
\* transport event changes the handle.
C3_HandleLifecycle == (socket = NULL) /\ [][C3_Step]_vars

\* disconnectRealtime ran on a handle that was not connected and there is
\* another socket whose transport events go on
C3_Witness ==
    /\ op.name = "disconnectRealtime"
    /\ op.h # NULL /\ ~op.hc
    /\ socket = NULL /\ st[op.h] = "closed"

\* C4: a failed HTTP request makes the operation reject with that same error
\* object, and no request is issued after the failure.
C4_ErrorsPropagate ==
    \A i \in 1..Len(answers) :
        ~answers[i].ok =>
            /\ hpc = "done"
            /\ result = Rejected(answers[i].data)
            /\ Len(reqlog) = i
            /\ inflight = << >>

\* placeOrder on a multi-restaurant cart: the second POST failed, a group was
\* still to be posted, one order had been placed
C4_Witness ==
    /\ hop.name = "placeOrder"
    /\ Len(answers) = 2 /\ answers[1].ok /\ ~answers[2].ok
    /\ groups # << >>
    /\ Len(orders) = 1
    /\ result = Rejected(answers[2].data)

\* the callback the claim pairs with each event
ClaimedCallback(ev) ==
    CASE ev = "disconnect"           -> "onDisconnect"
      [] ev = "order_accepted"       -> "onOrderAccepted"
      [] ev = "order_rejected"       -> "onOrderRejected"
      [] ev = "order_status_updated" -> "onStatusUpdate"
      [] ev = "order_updated"        -> "onOrderUpdate"
      [] ev = "rider_location"       -> "onRiderLocation"
      [] OTHER                       -> "none"

Dispatched(s, ev, args) ==
    IF ClaimedCallback(ev) \in cbs[s]
      THEN << [k |-> "call", on |-> s, name |-> ClaimedCallback(ev), args |-> args] >>
      ELSE << >>

C5_OriginalStep ==
    /\ op'.name = "event" => out' = Dispatched(op'.s, op'.ev, <<op'.data>>)
    /\ op'.name = "drop" => out' = Dispatched(op'.s, "disconnect", <<op'.data>>)

\* C5 as claimed: each of disconnect, order_accepted, order_rejected,
\* order_status_updated, order_updated, rider_location invokes its callback
\* once with the event's data and nothing else; 'authenticated' invokes nothing.
C5_DispatchWithData == [][C5_OriginalStep]_vars

C5_AmendedStep ==
    /\ op'.name = "event" =>
            (out' = Dispatched(op'.s, op'.ev, <<op'.data>>) /\ threw' = FALSE)
    /\ op'.name = "drop" =>
            (out' = Dispatched(op'.s, "disconnect", << >>) /\ threw' = FALSE)
    /\ (op'.name = "disconnectRealtime" /\ HandleConnected) =>
            out' = Dispatched(socket, "disconnect", << >>)

\* C5 amended: the five order / rider events invoke their callback once with
\* the event's data; 'disconnect' invokes onDisconnect once with no argument
\* (the reason is not forwarded); an event whose callback was not supplied and
\* 'authenticated' invoke nothing.
C5_Dispatch == [][C5_AmendedStep]_vars

C5_Witness ==
    /\ op.name = "event" /\ op.ev = "order_updated"
    /\ out = << [k |-> "call", on |-> op.s, name |-> "onOrderUpdate", args |-> <<op.data>>] >>

\* C6: at most one HTTP request of an invocation is in flight; a request is
\* issued only when every earlier request of the invocation has been answered.
C6_OneRequestInFlight ==
    /\ Len(inflight) <= 1
    /\ Len(reqlog) <= Len(answers) + 1

\* the second group's POST is in flight and the first has been answered
C6_Witness ==
    /\ hop.name = "placeOrder"
    /\ Len(reqlog) = 2 /\ Len(answers) = 1 /\ Len(inflight) = 1
    /\ groups # << >>

\* the group key the claim gives an item
ClaimedKey(item) ==
    IF item.restaurantId # "" THEN item.restaurantId
    ELSE IF item.vendorId # "" THEN item.vendorId ELSE "1"

SumOf(items) ==
    LET partial[i \in 0..Len(items)] ==
            IF i = 0 THEN 0 ELSE partial[i - 1] + items[i].price * items[i].quantity
    IN  partial[Len(items)]

WireItems(items) ==
    [i \in 1..Len(items) |->
        [name |-> items[i].name, quantity |-> items[i].quantity, price |-> items[i].price]]

ItemsKeyed(cart, key) ==
    LET Sel(it) == ClaimedKey(it) = key IN SelectSeq(cart, Sel)

CartKeys(cart) == { ClaimedKey(cart[i]) : i \in 1..Len(cart) }

C7_Grouping(cart, es) ==
    /\ { es[i].key : i \in 1..Len(es) } = CartKeys(cart)
    /\ \A i, j \in 1..Len(es) : es[i].key = es[j].key => i = j
    /\ \A i \in 1..Len(es) : es[i].items = ItemsKeyed(cart, es[i].key)

C7_Single(cart, fees) ==
    /\ Len(reqlog) = 1
    /\ reqlog[1].method = "POST" /\ reqlog[1].path = "/orders" /\ reqlog[1].client = "unified"
    /\ reqlog[1].body.items = WireItems(cart)
    /\ reqlog[1].body.subtotal = fees.subtotal
    /\ reqlog[1].body.deliveryFee = fees.deliveryFee
    /\ reqlog[1].body.platformFee = fees.platformFee
    /\ reqlog[1].body.total = fees.total
    /\ (result.kind = "value" => (answers[1].ok /\ result.val = answers[1].data))

C7_Multi(cart, fees, keys) ==
    /\ Len(reqlog) <= Cardinality(keys)
    /\ \A i \in 1..Len(reqlog) :
          /\ reqlog[i].method = "POST" /\ reqlog[i].path = "/orders" /\ reqlog[i].client = "unified"
          /\ \E key \in keys :
                /\ reqlog[i].body.items = WireItems(ItemsKeyed(cart, key))
                /\ reqlog[i].body.subtotal = SumOf(ItemsKeyed(cart, key))
                /\ reqlog[i].body.deliveryFee = 30
                /\ reqlog[i].body.platformFee = fees.platformFee
                /\ reqlog[i].body.total = SumOf(ItemsKeyed(cart, key)) + 30 + fees.platformFee
    /\ \A i, j \in 1..Len(reqlog) : reqlog[i].body.items = reqlog[j].body.items => i = j
    /\ result.kind = "value" =>
          /\ Len(reqlog) = Cardinality(keys)
          /\ result.val.success = TRUE
          /\ result.val.message = Cardinality(keys)
          /\ Len(result.val.data) = Cardinality(keys)
          /\ \A i \in 1..Cardinality(keys) : answers[i].ok /\ result.val.data[i] = answers[i].data

\* C7: every cart item is in exactly one group, keyed by restaurantId, else
\* vendorId, else '1', groups keeping cart order; one group gives one POST with
\* all items and the caller's subtotal, deliveryFee, platformFee and total, and
\* its response data is returned; n # 1 groups give n POSTs, one per group, with
\* subtotal = sum of price * quantity, deliveryFee = 30, total = subtotal + 30
\* + platformFee, and {success: true, data: the n responses in issue order,
\* message counting n}.
C7_PlaceOrderGroups ==
    hop.name = "placeOrder" =>
        /\ C7_Grouping(hop.cart, groupItemsByRestaurant(hop.cart))
        /\ C7_Grouping(hop.cart, ObjectEntries(groupItemsByRestaurant(hop.cart)))
        /\ IF Cardinality(CartKeys(hop.cart)) = 1
             THEN C7_Single(hop.cart, hop.fees)
             ELSE C7_Multi(hop.cart, hop.fees, CartKeys(hop.cart))

\* a three-item cart in two groups, one item keyed by its vendorId, both orders
\* placed, the caller's deliveryFee not the per-restaurant one
C7_Witness ==
    /\ hop.name = "placeOrder"
    /\ Cardinality(CartKeys(hop.cart)) = 2
    /\ Len(hop.cart) = 3
    /\ \E i \in 1..Len(hop.cart) : hop.cart[i].restaurantId = "" /\ hop.cart[i].vendorId # ""
    /\ result.kind = "value"
    /\ Len(result.val.data) = 2
    /\ hop.fees.deliveryFee # 30

OrderRequestNames == {"order:subscribe", "customer:track_order", "order:unsubscribe"}

EmitRec(s, name, args) == [k |-> "emit", on |-> s, name |-> name, args |-> args]

C8_Step ==
    /\ (op'.name = "subscribe" /\ HandleConnected) =>
            out' = << EmitRec(socket, "order:subscribe", <<op'.data>>),
                      EmitRec(socket, "customer:track_order", <<op'.data>>) >>
    /\ (op'.name = "unsubscribe" /\ HandleConnected) =>
            out' = << EmitRec(socket, "order:unsubscribe", <<op'.data>>) >>
    /\ (op'.name \in {"subscribe", "unsubscribe"} /\ ~HandleConnected) => out' = << >>
    /\ op'.name \in {"subscribe", "unsubscribe"} =>
            (threw' = FALSE /\ UNCHANGED <<socket, nsock, st, cust, cbs>>)
    /\ op'.name \notin {"subscribe", "unsubscribe"} =>
            \A i \in 1..Len(out') : out'[i].name \notin OrderRequestNames
    /\ op'.name = "connect" =>
            \A i \in 1..Len(out') :
                out'[i].k = "emit" => out'[i].name \in {"authenticate", "customer:join"}

\* C8: with a connected handle subscribeToOrder(id) emits 'order:subscribe' then
\* 'customer:track_order' with id and unsubscribeFromOrder(id) emits
\* 'order:unsubscribe' with id; with a null or unconnected handle both emit
\* nothing, change nothing and raise nothing, and no later step (a connect or
\* reconnect included) emits the request.
C8_SubscribeOnlyWhenConnected == [][C8_Step]_vars

\* subscribeToOrder on a handle that is non-null and not connected
C8_Witness ==
    /\ op.name = "subscribe"
    /\ op.h # NULL /\ ~op.hc
    /\ out = << >>

\* C9: on every 'connect' event of a socket (first connection or reconnection)
\* the module emits 'authenticate' with {type: 'customer', id: customerId}, then
\* 'customer:join' with customerId on the same socket, then invokes onConnect if
\* supplied, customerId being the one passed to the initialization call that
\* created the socket that connected.
C9_ConnectAuthenticates ==
    op.name = "connect" =>
        /\ ~threw
        /\ Len(out) >= 2
        /\ out[1].k = "emit" /\ out[1].name = "authenticate"
        /\ out[1].args = <<"customer", cust[op.s]>>
        /\ out[2].k = "emit" /\ out[2].name = "customer:join"
        /\ out[2].args = <<cust[op.s]>>
        /\ out[2].on = out[1].on
        /\ SubSeq(out, 3, Len(out)) =
              (IF "onConnect" \in cbs[op.s]
                 THEN << [k |-> "call", on |-> op.s, name |-> "onConnect", args |-> << >>] >>
                 ELSE << >>)

\* ids the claim routes to the unified backend
ClaimedUnified(id) ==
    Len(id) >= 4 /\ id[1] = "M" /\ id[2] = "Y" /\ id[3] = "E" /\ id[4] = "-"

RiderContacted == \E i \in 1..Len(reqlog) : reqlog[i].client = "rider"
UnifiedContacted == \E i \in 1..Len(reqlog) : reqlog[i].client = "unified"
Flagged(data) == "success" \in DOMAIN data /\ data.success = TRUE

\* C10: an id not starting with 'MYE-' never contacts the unified backend and
\* yields the rider backend's data; an id starting with 'MYE-' queries the
\* unified track endpoint first, the rider backend iff that request completed
\* with a falsy success flag, and with a truthy flag yields the tracked order
\* with status = currentStatus and the timeline.
C10_StatusRouting ==
    hop.name = "getOrderStatus" =>
        IF ~ClaimedUnified(hop.id)
          THEN /\ ~UnifiedContacted
               /\ Len(reqlog) = 1 /\ reqlog[1].client = "rider" /\ reqlog[1].id = hop.id
               /\ result.kind = "value" => result.val = answers[1].data
          ELSE /\ reqlog[1].client = "unified" /\ reqlog[1].path = "/orders/:id/track"
               /\ reqlog[1].id = hop.id
               /\ RiderContacted <=>
                      (Len(answers) >= 1 /\ answers[1].ok /\ ~Flagged(answers[1].data))
               /\ RiderContacted =>
                      (Len(reqlog) = 2 /\ reqlog[2].client = "rider" /\ reqlog[2].id = hop.id)
               /\ (Len(answers) >= 1 /\ answers[1].ok /\ Flagged(answers[1].data)) =>
                      /\ hpc = "done" /\ result.kind = "value"
                      /\ result.val.status = answers[1].data.data.currentStatus
                      /\ result.val.timeline = answers[1].data.data.timeline
                      /\ result.val.id = answers[1].data.data.order.id
                      /\ result.val.total = answers[1].data.data.order.total
               /\ (result.kind = "value" /\ RiderContacted) => result.val = answers[2].data

\* an 'MYE-' id whose track request answered success: false and whose status
\* then came from the rider backend
C10_Witness ==
    /\ hop.name = "getOrderStatus"
    /\ ClaimedUnified(hop.id)
    /\ Len(reqlog) = 2 /\ reqlog[2].client = "rider"
    /\ result.kind = "value"


====
